---------------------------- MODULE Spec2Model ----------------------------
(***************************************************************************)
(* Model of preprocessing.py: class Awair (loader, cleaner, hourly / daily *)
(* / monthly aggregation, station join, csv export) and main().            *)
(*                                                                         *)
(* Tables (pandas DataFrames) are records [set, dtypes, rows]: `set' is    *)
(* FALSE for the attribute value None, `dtypes' gives the dtype of the     *)
(* columns whose type the code changes, `rows' is the sequence of rows.    *)
(* A timestamp is [wall, off]: the wall-clock reading in ticks since       *)
(* 2019-03-01 00:00 and the UTC offset in hours it is written with.        *)
(* A station_id cell is a sequence of digits while the column holds text   *)
(* and an integer once it holds int64.  Measured values are integers.      *)
(***************************************************************************)
EXTENDS Integers, Sequences, FiniteSets, TLC

VARIABLES
    pc,            \* position of the driver: a line of main(), or "client"
    driver,        \* "main": the calls of main(); "client": any call order
    input_file,    \* the argument of Awair(input_file): [given, exists, ext]
    station_file,  \* the argument of generate_monthly_stats: [given, path]
    conn,          \* the sqlite3 connection: "none", "open" or "closed"
    data,          \* self.data
    hourly,        \* self.hourly
    daily,         \* self.daily
    monthly,       \* self.monthly
    outputs,       \* the csv files written to output_dir
    exit_status,   \* exit status of the process once pc = "exit" or "done"
    error          \* what the run reported to the operator on a fatal end

vars == <<pc, driver, input_file, station_file, conn, data, hourly, daily,
          monthly, outputs, exit_status, error>>

---------------------------------------------------------------------------
\* Bounds of the model.

\* Readings in an input file of the free-form family.
MaxRows == 2
\* (station, day) blocks of hourly coverage in an input file of the block family.
MaxBlocks == 2
\* Hours holding a pair of readings in an input file of the pair family.
MaxPairs == 2
\* Resolution of the clock: measure_time values per hour.
TicksPerHour == 2

---------------------------------------------------------------------------
\* Calendar and clock.

HoursPerDay == 24
DayTicks == HoursPerDay * TicksPerHour

\* Day numbers count from 2019-03-01 = 0; April starts on day 31, May on day 61.
April1 == 31
May1 == 61

\* Europe/Vienna: UTC+1 until 2019-03-31 01:00 UTC, UTC+2 afterwards.
DstStart == (30 * HoursPerDay + 1) * TicksPerHour
ViennaOffset(instant) == IF instant < DstStart THEN 1 ELSE 2

\* The instant a timestamp denotes, in ticks of UTC.
Instant(ts) == ts.wall - ts.off * TicksPerHour

\* pd.to_datetime(..., utc=True).dt.tz_convert('Europe/Vienna') on one cell.
to_vienna(ts) ==
    LET i == Instant(ts)
        o == ViennaOffset(i)
    IN  [wall |-> i + o * TicksPerHour, off |-> o]

\* .dt.date and .dt.hour of a timezone-aware cell.
DateOf(ts) == ts.wall \div DayTicks
HourOf(ts) == (ts.wall % DayTicks) \div TicksPerHour

\* astype('datetime64[M]'): a date truncated to the first day of its month.
MonthStart(d) == IF d < April1 THEN 0 ELSE IF d < May1 THEN April1 ELSE May1

\* A band string such as '2019-04-01' compared with a timezone-aware column:
\* midnight of that day, localised to the column's timezone.
BandTimestamp(day) == [wall |-> day * DayTicks, off |-> 2]
lower_band == BandTimestamp(April1)
upper_band == BandTimestamp(May1)

---------------------------------------------------------------------------
\* Numbers.

Abs(x) == IF x < 0 THEN 0 - x ELSE x

\* decimal.ROUND_HALF_EVEN, the decimal module's default rounding.
round_half_even(num, den) ==
    LET q == Abs(num) \div den
        r == Abs(num) % den
        m == IF 2 * r > den \/ (2 * r = den /\ q % 2 = 1) THEN q + 1 ELSE q
    IN  IF num < 0 THEN 0 - m ELSE m

\* Decimal(str(value)).quantize(Decimal("1.")) under ROUND_HALF_UP, for the
\* value num/den (den > 0): the magnitude is rounded, a half goes up.
_round_values(num, den) ==
    LET q == Abs(num) \div den
        r == Abs(num) % den
        m == IF 2 * r >= den THEN q + 1 ELSE q
    IN  IF num < 0 THEN 0 - m ELSE m

\* int(text) for a string of decimal digits.
RECURSIVE ToInt(_)
ToInt(digits) ==
    IF digits = <<>> THEN 0
    ELSE 10 * ToInt(SubSeq(digits, 1, Len(digits) - 1)) + digits[Len(digits)]

RECURSIVE SumSeq(_)
SumSeq(s) == IF s = <<>> THEN 0 ELSE Head(s) + SumSeq(Tail(s))

SeqMin(s) == CHOOSE x \in {s[i] : i \in DOMAIN s} : \A j \in DOMAIN s : x <= s[j]
SeqMax(s) == CHOOSE x \in {s[i] : i \in DOMAIN s} : \A j \in DOMAIN s : x >= s[j]

\* Lexicographic order on tuples of integers of the same length.
RECURSIVE LexLess(_, _)
LexLess(a, b) ==
    /\ a # <<>>
    /\ \/ Head(a) < Head(b)
       \/ Head(a) = Head(b) /\ LexLess(Tail(a), Tail(b))

\* The tuples of a set in ascending order (groupby sorts its group keys).
RECURSIVE SortedKeys(_)
SortedKeys(S) ==
    IF S = {} THEN <<>>
    ELSE LET m == CHOOSE x \in S : \A y \in S : ~LexLess(y, x)
         IN  <<m>> \o SortedKeys(S \ {m})

---------------------------------------------------------------------------
\* Tables.

None == [set |-> FALSE, dtypes |-> [c \in {} |-> ""], rows |-> <<>>]
Frame(dt, rs) == [set |-> TRUE, dtypes |-> dt, rows |-> rs]


\* The elements of s at the positions in I, in the order of s.
RECURSIVE Subsequence(_, _, _)
Subsequence(s, I, n) ==
    IF n = 0 THEN <<>>
    ELSE LET p == Subsequence(s, I, n - 1)
         IN  IF n \in I THEN Append(p, s[n]) ELSE p

---------------------------------------------------------------------------
\* Program constants.

\* daily_stats(self, min_hour=18)
min_hour == 18
\* perc_of_norm(self, norm=50, ...)
norm == 50
\* the thresholds of monthly_stats
abv_norm == 50
abv_200 == 200
abv_300 == 300

---------------------------------------------------------------------------
\* Loader.

ObjectDtypes == [station_id |-> "object", measure_time |-> "object"]

\* pd.read_sql_query("SELECT station_id, measure_time, value FROM pm10"):
\* the cells as the table stores them (station_id held as text).
read_sql_query(content) == Frame(ObjectDtypes, content)

\* pd.read_csv(names=[...], skiprows=1): the lines after the header line;
\* a column of digit strings is parsed to int64, timestamps stay text.
read_csv(content) ==
    Frame([ObjectDtypes EXCEPT !.station_id = "int64"],
          [i \in DOMAIN content |->
              [content[i] EXCEPT !.station_id = ToInt(content[i].station_id)]])

\* os.path.splitext(input_file)[1].lower()
lower(ext) ==
    CASE ext = ".DB"  -> ".db"
      [] ext = ".CSV" -> ".csv"
      [] OTHER        -> ext

\* A mis-written read_data whose final else branch reports nothing and returns.
read_data_no_exit(exists, ext) == ~exists

\* read_data: TRUE when it ends the process with sys.exit(1).
read_data_exits(exists, ext) == ~exists \/ lower(ext) \notin {".db", ".csv"}

---------------------------------------------------------------------------
\* Cleaner.

DatetimeDtype == "datetime64[ns, Europe/Vienna]"

convert_datetime(f) ==
    Frame([f.dtypes EXCEPT !.measure_time = DatetimeDtype],
          [i \in DOMAIN f.rows |->
              [f.rows[i] EXCEPT !.measure_time = to_vienna(f.rows[i].measure_time)]])

\* DataFrame.drop_duplicates(): a row equal in every column to an earlier row goes.
remove_duplicates(f) ==
    LET first == {i \in DOMAIN f.rows : \A j \in 1..(i - 1) : f.rows[j] # f.rows[i]}
    IN  Frame(f.dtypes, Subsequence(f.rows, first, Len(f.rows)))

\* astype(int) of the station_id column.
astype_int(f) ==
    IF f.dtypes.station_id = "int64" THEN f
    ELSE Frame([f.dtypes EXCEPT !.station_id = "int64"],
               [i \in DOMAIN f.rows |->
                   [f.rows[i] EXCEPT !.station_id = ToInt(f.rows[i].station_id)]])

SortKey(r) == <<r.station_id, Instant(r.measure_time)>>

\* sort_values(by=['station_id', 'measure_time']): a stable multi-column sort.
RECURSIVE StableSort(_)
StableSort(rows) ==
    IF rows = <<>> THEN <<>>
    ELSE LET n == Len(rows)
             x == rows[n]
             s == StableSort(SubSeq(rows, 1, n - 1))
             k == Cardinality({i \in DOMAIN s : ~LexLess(SortKey(x), SortKey(s[i]))})
         IN  SubSeq(s, 1, k) \o <<x>> \o SubSeq(s, k + 1, Len(s))

sort_values(f) ==
    LET g == astype_int(f) IN Frame(g.dtypes, StableSort(g.rows))

\* A mis-written limit_time_range that also keeps a reading at the upper band.
limit_time_range_closed(f, lo, up) ==
    Frame(f.dtypes,
          SelectSeq(f.rows, LAMBDA r : /\ Instant(r.measure_time) >= Instant(lo)
                                       /\ Instant(r.measure_time) <= Instant(up)))

limit_time_range(f, lo, up) ==
    Frame(f.dtypes,
          SelectSeq(f.rows, LAMBDA r : /\ Instant(r.measure_time) >= Instant(lo)
                                       /\ Instant(r.measure_time) < Instant(up)))

---------------------------------------------------------------------------
\* Aggregator.

\* hourly_stats: the mean of each (station_id, date, hour) group, rounded.
hourly_stats(f) ==
    LET key(r) == <<r.station_id, DateOf(r.measure_time), HourOf(r.measure_time)>>
        keys == SortedKeys({key(f.rows[i]) : i \in DOMAIN f.rows})
        row(k) ==
            LET grp == SelectSeq(f.rows, LAMBDA r : key(r) = k)
                vals == [i \in DOMAIN grp |-> grp[i].value]
            IN  [station_id |-> k[1], date |-> k[2], hour |-> k[3],
                 value |-> _round_values(SumSeq(vals), Len(vals))]
    IN  Frame([value |-> "Decimal"], [i \in DOMAIN keys |-> row(keys[i])])

\* The rows of daily_stats for the groups holding at least `least' hourly rows.
DailyRows(h, least) ==
    LET key(r) == <<r.station_id, r.date>>
        count(k) == Cardinality({i \in DOMAIN h.rows : key(h.rows[i]) = k})
        keys == SortedKeys({k \in {key(h.rows[i]) : i \in DOMAIN h.rows} : count(k) >= least})
        row(k) ==
            LET grp == SelectSeq(h.rows, LAMBDA r : key(r) = k)
                vals == [i \in DOMAIN grp |-> grp[i].value]
            IN  [station_id |-> k[1], date |-> k[2],
                 min |-> _round_values(SeqMin(vals), 1),
                 max |-> _round_values(SeqMax(vals), 1),
                 mean |-> _round_values(SumSeq(vals), Len(vals))]
    IN  [i \in DOMAIN keys |-> row(keys[i])]

DailyDtypes == [date |-> "date", mean |-> "Decimal"]

\* A mis-written daily_stats whose gate is count > min_hour (count >= min_hour + 1).
daily_stats_strict(h, min) ==
    Frame(DailyDtypes, DailyRows(h, min + 1))

\* daily_stats: min, max and mean of the (station_id, date) groups holding at
\* least min_hour hourly rows.
daily_stats(h, min) ==
    Frame(DailyDtypes, DailyRows(h, min))

\* perc_of_norm: adds the column perc_of_norm to self.daily.
perc_of_norm(d, nrm) ==
    Frame(d.dtypes,
          [i \in DOMAIN d.rows |->
              LET r == d.rows[i]
              IN  [station_id |-> r.station_id, date |-> r.date, min |-> r.min,
                   max |-> r.max, mean |-> r.mean,
                   perc_of_norm |-> _round_values(r.mean * 100, nrm)]])

\* The first two statements of monthly_stats assign columns of self.daily.
monthly_stats_daily(d) ==
    Frame([date |-> "datetime64[ns]", mean |-> "float64"],
          [i \in DOMAIN d.rows |-> [d.rows[i] EXCEPT !.date = MonthStart(d.rows[i].date)]])

\* The rows of monthly_stats for the thresholds t_norm, t_200 and t_300.
MonthlyRows(d, t_norm, t_200, t_300) ==
    LET key(r) == <<r.station_id, r.date>>
        keys == SortedKeys({key(d.rows[i]) : i \in DOMAIN d.rows})
        row(k) ==
            LET grp == SelectSeq(d.rows, LAMBDA r : key(r) = k)
                means == [i \in DOMAIN grp |-> grp[i].mean]
                maxes == [i \in DOMAIN grp |-> grp[i].max]
                abv(t) == Len(SelectSeq(means, LAMBDA x : x > t))
            IN  [station_id |-> k[1], date |-> k[2],
                 mean |-> _round_values(SumSeq(means), Len(means)),
                 days_num |-> Len(grp),
                 days_abv_norm |-> abv(t_norm),
                 days_abv_200 |-> abv(t_200),
                 days_abv_300 |-> abv(t_300),
                 max |-> _round_values(SeqMax(maxes), 1)]
    IN  [i \in DOMAIN keys |-> row(keys[i])]

\* A mis-written monthly_stats that counts a day at a threshold as above it
\* (x >= t, which for the integer daily means is x > t - 1).
monthly_stats_inclusive(d) ==
    Frame([merged |-> "no"],
          MonthlyRows(monthly_stats_daily(d), abv_norm - 1, abv_200 - 1, abv_300 - 1))

\* monthly_stats: the table it returns (grouped on the truncated dates).
monthly_stats(d) ==
    Frame([merged |-> "no"],
          MonthlyRows(monthly_stats_daily(d), abv_norm, abv_200, abv_300))

\* add_station_info and the column selection of generate_monthly_stats: a left
\* merge on station_id = id; a station the file does not list keeps null fields.
add_station_info(m, ids) ==
    Frame([merged |-> "yes"],
          [i \in DOMAIN m.rows |->
              LET r == m.rows[i]
              IN  [station_id |-> r.station_id, date |-> r.date,
                   station_name |-> IF r.station_id \in ids THEN "name" ELSE "null",
                   days_num |-> r.days_num, days_abv_norm |-> r.days_abv_norm,
                   days_abv_200 |-> r.days_abv_200, days_abv_300 |-> r.days_abv_300,
                   max |-> r.max, mean |-> r.mean]])

---------------------------------------------------------------------------
\* Inputs: what the input file and the station file may hold.

RECURSIVE Concat(_)
Concat(ss) == IF ss = <<>> THEN <<>> ELSE Head(ss) \o Concat(Tail(ss))

Reading(sid, wall, off, v) ==
    [station_id |-> sid, measure_time |-> [wall |-> wall, off |-> off], value |-> v]

\* Station ids as written: "2", "10" (before "2" as text) and "02".
StationTexts == {<<2>>, <<1, 0>>, <<0, 2>>}

\* Timestamps as written: the lower band written in UTC, a reading one tick
\* later, the upper band, and a March reading from before the change to
\* summer time.
TimeTexts ==
    {[wall |-> April1 * DayTicks - 2 * TicksPerHour, off |-> 0],
     [wall |-> April1 * DayTicks + 1, off |-> 2],
     [wall |-> May1 * DayTicks, off |-> 2],
     [wall |-> DstStart - 1, off |-> 0]}

Values == {10, 20}

\* The free-form family: up to MaxRows readings in any order.
FreeContents ==
    UNION {[1..n -> [station_id : StationTexts, measure_time : TimeTexts, value : Values]] :
           n \in 0..MaxRows}

\* The block family: block i covers the first cov hours of day April 1 + i of
\* station 2 with one reading of value v each.
Coverages == {min_hour - 1, min_hour}
BlockValues == {50, 60, 200, 300, 310}
Block(i, b) ==
    [h \in 1..b.cov |->
        Reading(<<2>>, (April1 + i) * DayTicks + (h - 1) * TicksPerHour, 2, b.v)]
BlockContents(max) ==
    UNION {{Concat([i \in 1..n |-> Block(i, bs[i])]) :
            bs \in [1..n -> [cov : Coverages, v : BlockValues]]} : n \in 0..max}

\* The pair family: hour j of April 10 of station 2 holds the readings v and
\* v + 1, whose mean lies half-way between two integers.
PairValues == {0 - 3, 2}
Pair(j, v) ==
    <<Reading(<<2>>, (April1 + 9) * DayTicks + j * TicksPerHour, 2, v),
      Reading(<<2>>, (April1 + 9) * DayTicks + j * TicksPerHour + 1, 2, v + 1)>>
PairContents ==
    UNION {{Concat([j \in 1..n |-> Pair(j, vs[j])]) : vs \in [1..n -> PairValues]} :
           n \in 0..MaxPairs}

\* What the input file holds: any family for the run of main(); the pair
\* family or a single block for a client calling the stages in any order.
InputContents ==
    IF driver = "main" THEN FreeContents \cup BlockContents(MaxBlocks) \cup PairContents
    ELSE BlockContents(1) \cup PairContents

Extensions == {".db", ".CSV", ".txt", ""}

\* The station file argument: absent from the command line (None), a path
\* naming no file, or a file listing the given station ids.
StationFiles ==
    {[given |-> TRUE, path |-> "None", ids |-> {}],
     [given |-> TRUE, path |-> "missing.csv", ids |-> {}],
     [given |-> TRUE, path |-> "stations.csv", ids |-> {2}]}

---------------------------------------------------------------------------
\* The driver and the ways a call ends.

Stages == <<"preprocess_data", "generate_hourly_stats", "generate_daily_stats",
            "generate_monthly_stats", "done">>

\* main(): the statement after the call at position p.
main(p) ==
    CASE p = "init"                   -> Stages[1]
      [] p = "preprocess_data"        -> Stages[2]
      [] p = "generate_hourly_stats"  -> Stages[3]
      [] p = "generate_daily_stats"   -> Stages[4]
      [] OTHER                        -> Stages[5]

\* The driver is about to make the call named stage.
Calls(stage) == pc = stage \/ (pc = "client" /\ stage # "init")

\* The call returns normally.
Return(stage) ==
    /\ pc' = IF driver = "main" THEN main(stage) ELSE "client"
    /\ UNCHANGED <<exit_status, error>>

\* self.log.error(message); sys.exit(1)
Fatal(message) ==
    /\ pc' = "exit"
    /\ exit_status' = 1
    /\ error' = message

\* An exception nobody catches: the interpreter prints the traceback and
\* the process ends with status 1.
Raise(exception) ==
    /\ pc' = "exit"
    /\ exit_status' = 1
    /\ error' = exception

\* A stage whose leading assert has been removed.
assert_removed(x) == TRUE

\* assert <dataset> is not None
is_not_None(x) == x.set

---------------------------------------------------------------------------
\* The operations.

Init ==
    /\ pc = "init"
    /\ driver = "main"
    /\ input_file = [given |-> FALSE, exists |-> FALSE, ext |-> ""]
    /\ station_file = [given |-> FALSE, path |-> "", ids |-> {}]
    /\ conn = "none"
    /\ data = None
    /\ hourly = None
    /\ daily = None
    /\ monthly = None
    /\ outputs = {}
    /\ exit_status = 0
    /\ error = ""

\* An Awair object used by a client that calls its stages in any order.
InitCalls ==
    /\ pc = "init"
    /\ driver = "client"
    /\ input_file = [given |-> FALSE, exists |-> FALSE, ext |-> ""]
    /\ station_file = [given |-> FALSE, path |-> "", ids |-> {}]
    /\ conn = "none"
    /\ data = None
    /\ hourly = None
    /\ daily = None
    /\ monthly = None
    /\ outputs = {}
    /\ exit_status = 0
    /\ error = ""

\* Awair(input_file): __init__, configure_logger, read_data and the reader.
Construct ==
    /\ Calls("init")
    /\ \E exists \in BOOLEAN, ext \in Extensions :
        /\ input_file' = [given |-> TRUE, exists |-> exists, ext |-> ext]
        /\ IF read_data_exits(exists, ext)
           THEN /\ Fatal(IF ~exists THEN "Input file does not exist"
                         ELSE "Invalid source extension")
                /\ UNCHANGED <<conn, data>>
           ELSE IF lower(ext) = ".db"
           THEN \* _read_sqlite: connect, query, close
                \E has_table \in BOOLEAN :
                    IF has_table
                    THEN /\ \E content \in InputContents :
                                data' = read_sql_query(content)
                         /\ conn' = "closed"
                         /\ Return("init")
                    ELSE \* the query raises; conn.close() is not reached
                         /\ conn' = "open"
                         /\ Raise("DatabaseError")
                         /\ UNCHANGED data
           ELSE IF lower(ext) = ".csv"
           THEN /\ \E content \in InputContents : data' = read_csv(content)
                /\ Return("init")
                /\ UNCHANGED conn
           ELSE \* read_data returned without loading (no branch of the code does)
                /\ Return("init")
                /\ UNCHANGED <<conn, data>>
    /\ UNCHANGED <<driver, station_file, hourly, daily, monthly, outputs>>

preprocess_data ==
    /\ Calls("preprocess_data")
    /\ IF ~is_not_None(data)
       THEN /\ Raise("AssertionError")
            /\ UNCHANGED <<data, outputs>>
       ELSE /\ data' = limit_time_range(
                           sort_values(remove_duplicates(convert_datetime(data))),
                           lower_band, upper_band)
            /\ outputs' = outputs \cup {"data.csv"}
            /\ Return("preprocess_data")
    /\ UNCHANGED <<driver, input_file, station_file, conn, hourly, daily, monthly>>

generate_hourly_stats ==
    /\ Calls("generate_hourly_stats")
    /\ IF ~is_not_None(data)
       THEN /\ Raise("AssertionError")
            /\ UNCHANGED <<hourly, outputs>>
       ELSE IF data.dtypes.measure_time # DatetimeDtype
       THEN \* the .dt accessor of a column of text
            /\ Raise("AttributeError")
            /\ UNCHANGED <<hourly, outputs>>
       ELSE /\ hourly' = hourly_stats(data)
            /\ outputs' = outputs \cup {"hourly_stats.csv"}
            /\ Return("generate_hourly_stats")
    /\ UNCHANGED <<driver, input_file, station_file, conn, data, daily, monthly>>

generate_daily_stats ==
    /\ Calls("generate_daily_stats")
    /\ IF ~is_not_None(hourly)
       THEN /\ Raise("AssertionError")
            /\ UNCHANGED <<daily, outputs>>
       ELSE /\ daily' = perc_of_norm(daily_stats(hourly, min_hour), norm)
            /\ outputs' = outputs \cup {"daily_stats.csv"}
            /\ Return("generate_daily_stats")
    /\ UNCHANGED <<driver, input_file, station_file, conn, data, hourly, monthly>>

generate_monthly_stats ==
    /\ Calls("generate_monthly_stats")
    /\ \E sf \in StationFiles :
        /\ station_file' = sf
        /\ IF ~is_not_None(daily)
           THEN /\ Raise("AssertionError")
                /\ UNCHANGED <<daily, monthly, outputs>>
           ELSE /\ daily' = monthly_stats_daily(daily)
                /\ IF sf.path = "None"
                   THEN \* os.path.exists(None)
                        /\ monthly' = monthly_stats(daily)
                        /\ Raise("TypeError")
                        /\ UNCHANGED outputs
                   ELSE IF sf.path = "missing.csv"
                   THEN /\ monthly' = monthly_stats(daily)
                        /\ Fatal("Station file does not exist")
                        /\ UNCHANGED outputs
                   ELSE /\ monthly' = add_station_info(monthly_stats(daily), sf.ids)
                        /\ outputs' = outputs \cup {"monthly_stats.csv"}
                        /\ Return("generate_monthly_stats")
    /\ UNCHANGED <<driver, input_file, conn, data, hourly>>

Next ==
    \/ Construct
    \/ preprocess_data
    \/ generate_hourly_stats
    \/ generate_daily_stats
    \/ generate_monthly_stats

Spec == Init /\ [][Next]_vars

SpecCalls == InitCalls /\ [][Next]_vars

---------------------------------------------------------------------------
\* Properties.

RowsOf(f) == {f.rows[i] : i \in DOMAIN f.rows}

\* The daily table as the daily stage leaves it, before any later stage.
DailyFresh == daily.set /\ daily.dtypes.date = "date"

\* The number of hourly rows of station s on date d.
HoursOn(s, d) ==
    Cardinality({i \in DOMAIN hourly.rows :
                    hourly.rows[i].station_id = s /\ hourly.rows[i].date = d})

\* The number of daily rows of station s on date d.
DailyRowsOn(s, d) ==
    Cardinality({i \in DOMAIN daily.rows :
                    daily.rows[i].station_id = s /\ daily.rows[i].date = d})

\* C1: daily completeness gate.  Once the daily stage has run, every
\* (station_id, date) group of hourly rows has exactly one daily row when it
\* holds at least 18 hourly rows and none when it holds fewer, every daily
\* row comes from such a group, and the run has not entered an error state.
C1_DailyCompletenessGate ==
    DailyFresh =>
        /\ \A h \in RowsOf(hourly) :
              DailyRowsOn(h.station_id, h.date) =
                  IF HoursOn(h.station_id, h.date) >= 18 THEN 1 ELSE 0
        /\ \A d \in RowsOf(daily) : HoursOn(d.station_id, d.date) >= 18
        /\ pc # "exit"
        /\ exit_status = 0
        /\ error = ""

\* C1 witness: the daily stage has run on a group of 17 hourly rows, which
\* has no daily row, and a group of 18, which has one.
C1_Witness ==
    /\ DailyFresh
    /\ \E a, b \in RowsOf(hourly) :
          /\ HoursOn(a.station_id, a.date) = 17
          /\ DailyRowsOn(a.station_id, a.date) = 0
          /\ HoursOn(b.station_id, b.date) = 18
          /\ DailyRowsOn(b.station_id, b.date) = 1

\* The positions of the daily rows of station s in the month starting on day
\* m whose mean exceeds t.
DaysAbove(s, m, t) ==
    {i \in DOMAIN daily.rows :
        /\ daily.rows[i].station_id = s
        /\ MonthStart(daily.rows[i].date) = m
        /\ daily.rows[i].mean > t}

\* The positions of all daily rows of station s in the month starting on m.
DaysIn(s, m) ==
    {i \in DOMAIN daily.rows :
        daily.rows[i].station_id = s /\ MonthStart(daily.rows[i].date) = m}

\* C2: exceedance counting.  Once the monthly stage has run, every
\* (station_id, month) group of daily rows has exactly one monthly row, whose
\* days_num is the number of daily rows of the group and whose days_abv_norm,
\* days_abv_200 and days_abv_300 are the numbers of those rows with a mean
\* strictly greater than 50, 200 and 300.
C2_ExceedanceCounting ==
    monthly.set =>
        /\ \A d \in RowsOf(daily) :
              Cardinality({i \in DOMAIN monthly.rows :
                              /\ monthly.rows[i].station_id = d.station_id
                              /\ monthly.rows[i].date = MonthStart(d.date)}) = 1
        /\ \A m \in RowsOf(monthly) :
              /\ m.days_num = Cardinality(DaysIn(m.station_id, m.date))
              /\ m.days_num > 0
              /\ m.days_abv_norm = Cardinality(DaysAbove(m.station_id, m.date, 50))
              /\ m.days_abv_200 = Cardinality(DaysAbove(m.station_id, m.date, 200))
              /\ m.days_abv_300 = Cardinality(DaysAbove(m.station_id, m.date, 300))

\* C2 witness: a month of two days, one with a mean exactly at a threshold,
\* which is not counted, and one above it, which is.
C2_Witness ==
    /\ monthly.set
    /\ \E m \in RowsOf(monthly) :
          /\ m.days_num = 2
          /\ m.days_abv_norm = 1
          /\ \E i, j \in DaysIn(m.station_id, m.date) :
                daily.rows[i].mean = 50 /\ daily.rows[j].mean > 50

\* A row of the loaded table as the cleaner normalises it: the timestamp in
\* Vienna time, the station id an integer.
Normalised(r) ==
    [station_id |-> IF data.dtypes.station_id = "object"
                    THEN ToInt(r.station_id) ELSE r.station_id,
     measure_time |-> to_vienna(r.measure_time),
     value |-> r.value]

\* A Vienna wall-clock reading of April 2019: 2019-04-01 00:00 or later and
\* before 2019-05-01 00:00.
InApril(ts) == 31 * DayTicks <= ts.wall /\ ts.wall < 61 * DayTicks

\* C3: the time-window filter is half-open.  A step of preprocess_data leaves
\* exactly the prior rows whose time t has lower <= t < upper, in the sorted
\* order the filter received them in: a reading at the lower band stays, a
\* reading at the upper band goes.
C3_HalfOpenWindow ==
    [][(preprocess_data /\ data.set) =>
          /\ RowsOf(data') = {r \in {Normalised(x) : x \in RowsOf(data)} :
                                 InApril(r.measure_time)}
          /\ \A i, j \in DOMAIN data'.rows :
                i < j => ~LexLess(SortKey(data'.rows[j]), SortKey(data'.rows[i]))
      ]_vars

\* C3 witness: the cleaned table has been written and holds a reading taken
\* exactly at the lower band.
C3_Witness ==
    /\ "data.csv" \in outputs
    /\ \E r \in RowsOf(data) : r.measure_time.wall = 31 * DayTicks

\* The readings of the cleaned table that fall in the group of hourly row h.
ReadingsOf(h) ==
    {i \in DOMAIN data.rows :
        /\ data.rows[i].station_id = h.station_id
        /\ DateOf(data.rows[i].measure_time) = h.date
        /\ HourOf(data.rows[i].measure_time) = h.hour}

RECURSIVE SumOver(_)
SumOver(I) ==
    IF I = {} THEN 0
    ELSE LET i == CHOOSE x \in I : TRUE IN data.rows[i].value + SumOver(I \ {i})

\* r is the integer nearest to num/den, a value half-way between two
\* integers going to the one farther from zero.
NearestHalfAway(r, num, den) ==
    /\ 2 * Abs(r * den - num) <= den
    /\ 2 * Abs(r * den - num) = den => Abs(r) * den > Abs(num)

\* C4: rounding.  Every hourly value is the integer nearest to the mean of
\* its readings, a half-way mean rounded away from zero; rounding an already
\* rounded value again returns it, so the daily min and max are the smallest
\* and largest hourly values of the day.
C4_RoundHalfAwayFromZero ==
    /\ hourly.set =>
          \A h \in RowsOf(hourly) :
              /\ NearestHalfAway(h.value, SumOver(ReadingsOf(h)),
                                 Cardinality(ReadingsOf(h)))
              /\ _round_values(h.value, 1) = h.value
    /\ DailyFresh =>
          \A d \in RowsOf(daily) :
              LET vals == {h.value : h \in {x \in RowsOf(hourly) :
                              x.station_id = d.station_id /\ x.date = d.date}}
              IN  /\ d.min \in vals /\ \A v \in vals : d.min <= v
                  /\ d.max \in vals /\ \A v \in vals : d.max >= v

\* C4 witness: the hourly stage has rounded a mean of 2.5 to 3 and a mean of
\* -2.5 to -3.
C4_Witness ==
    /\ hourly.set
    /\ \E a, b \in RowsOf(hourly) :
          /\ a.value = 3 /\ Cardinality(ReadingsOf(a)) = 2 /\ SumOver(ReadingsOf(a)) = 5
          /\ b.value = 0 - 3 /\ Cardinality(ReadingsOf(b)) = 2
          /\ SumOver(ReadingsOf(b)) = 0 - 5

\* C5: no stage changes the table of an earlier stage.  The monthly stage
\* leaves self.daily as it was, the hourly stage leaves self.data as it was
\* and the daily stage leaves self.hourly as it was.
C5_NoInPlaceMutation ==
    [][/\ generate_monthly_stats => daily' = daily
       /\ generate_hourly_stats => data' = data
       /\ generate_daily_stats => hourly' = hourly
      ]_vars

\* C6: a missing input path or an extension other than .db / .csv ends the
\* run with a non-zero status before any stage starts: no table exists and
\* no file is written.
C6_BadInputStopsRun ==
    (/\ input_file.given
     /\ \/ ~input_file.exists
        \/ input_file.ext \notin {".db", ".DB", ".csv", ".CSV"}) =>
        /\ pc = "exit"
        /\ exit_status # 0
        /\ error \in {"Input file does not exist", "Invalid source extension"}
        /\ outputs = {}
        /\ ~data.set /\ ~hourly.set /\ ~daily.set /\ ~monthly.set

\* C6 witness: the run has ended on an existing input file whose extension
\* is neither .db nor .csv.
C6_Witness ==
    /\ pc = "exit"
    /\ input_file.given
    /\ input_file.exists
    /\ input_file.ext = ".txt"

\* C7: a station file that is not supplied or does not exist is a fatal
\* configuration error: once the monthly stage has met it the run has ended
\* with a non-zero status and the message naming the station file, and
\* monthly_stats.csv is not written.
C7_MissingStationFileFatal ==
    (/\ station_file.given
     /\ station_file.path \in {"None", "missing.csv"}
     /\ monthly.set) =>
        /\ pc = "exit"
        /\ exit_status # 0
        /\ error = "Station file does not exist"
        /\ "monthly_stats.csv" \notin outputs

\* C8: every handle a stage acquires is released before the stage returns,
\* on success and on failure: once the loader has ended, the database
\* connection is not open.
C8_ConnectionReleased ==
    pc # "init" => conn # "open"

\* C9: the cleaned output is strictly ordered by (station_id, measure_time):
\* the key of each row is strictly smaller than the key of the next.
C9_StrictlyOrdered ==
    "data.csv" \in outputs =>
        \A i \in 1..(Len(data.rows) - 1) :
            \/ data.rows[i].station_id < data.rows[i + 1].station_id
            \/ /\ data.rows[i].station_id = data.rows[i + 1].station_id
               /\ Instant(data.rows[i].measure_time) <
                      Instant(data.rows[i + 1].measure_time)

\* C10: stage-order guard.  In every state monthly is set only if daily is,
\* daily only if hourly is and hourly only if data is; a stage called while
\* its predecessor's table is None fails its assertion and changes no table
\* and writes no file.
C10_StageOrderGuard ==
    /\ [](/\ monthly.set => daily.set
          /\ daily.set => hourly.set
          /\ hourly.set => data.set)
    /\ [][/\ (generate_hourly_stats /\ ~data.set) \/ (generate_daily_stats /\ ~hourly.set)
             \/ (generate_monthly_stats /\ ~daily.set)
             => /\ error' = "AssertionError"
                /\ pc' = "exit"
                /\ UNCHANGED <<data, hourly, daily, monthly, outputs>>
          /\ hourly' # hourly => data.set
          /\ daily' # daily => hourly.set
          /\ monthly' # monthly => daily.set
         ]_vars

\* C10 witness: a client called a later stage before the hourly stage, the
\* call failed its assertion and no table but data exists.
C10_Witness ==
    /\ pc = "exit"
    /\ error = "AssertionError"
    /\ data.set
    /\ ~hourly.set /\ ~daily.set /\ ~monthly.set

=============================================================================
